---- MODULE Spec2Model ----
(***************************************************************************)
(* Model of src/main.py: the spreadsheet normalizer (read_excel_data), the *)
(* summary builder (create_json_body) and the authenticated sync workflow  *)
(* (login_api, api_get_request, api_post_request, execute_api_workflow).   *)
(*                                                                         *)
(* Python values are represented as follows.                               *)
(*   - None in the token slot is the string NoneTok; a value is "falsy"    *)
(*     when it is None or the empty string.                                *)
(*   - A dict is a TLA+ record/function whose DOMAIN is its key set, so a  *)
(*     missing key is a key outside the DOMAIN.                            *)
(*   - Amounts are floats that are multiples of 1/8 (exactly representable *)
(*     in binary, so sums are exact); a finite amount is the integer       *)
(*     number of eighths.  Two-decimal results are integers of hundredths. *)
(*   - An HTTP exchange is its status code; NoResponse stands for a        *)
(*     requests.exceptions.RequestException (connection failure, timeout). *)
(***************************************************************************)
EXTENDS Integers, Sequences, FiniteSets, TLC

VARIABLES
    pc,            \* position in main() / execute_api_workflow()
    api_config,    \* truthiness of API_CONFIG and API_CONFIG['base_url']
    data,          \* list returned by read_excel_data(sheet), as main() received it
    json_data,     \* json_output of main() = json_data of execute_api_workflow()
    built,         \* history: the envelope exactly as create_json_body returned it
    AUTH_TOKEN,    \* the global token slot
    issued,        \* history: the token stored by the login of this run
    login_result,  \* history: what login_api() gave its caller
    type_data,     \* local type_data of execute_api_workflow()
    i,             \* 1-based position of the POST loop in transactions
    calls,         \* history: HTTP requests handed to the requests library, in order
    log,           \* history: one entry per api_post_request() invocation of the loop
    resolved,      \* history: the resolution pass (lines 285-290) has completed
    sheet,         \* rows 2.. of the worksheet (read_excel_data)
    headers,       \* headers discovered in row 1 (read_excel_data)
    row,           \* read_excel_data's row counter
    records,       \* read_excel_data's local list `data`
    rd_pc          \* position in read_excel_data()

wf_vars == <<pc, api_config, data, json_data, built, AUTH_TOKEN, issued,
             login_result, type_data, i, calls, log, resolved>>
rd_vars == <<sheet, headers, row, records, rd_pc>>
vars == <<pc, api_config, data, json_data, built, AUTH_TOKEN, issued,
          login_result, type_data, i, calls, log, resolved,
          sheet, headers, row, records, rd_pc>>

----------------------------------------------------------------------------
(* Bounds of the model *)

MaxRecords == 2
MaxCats == 2

----------------------------------------------------------------------------
(* Python values *)

NoneTok == "None"

Falsy(v) == v = NoneTok \/ v = ""

Truthy(v) == ~Falsy(v)

NoResponse == 0

Min(S) == CHOOSE m \in S : \A n \in S : m <= n

SeqsUpTo(S, n) == UNION {[1..k -> S] : k \in 0..n}

----------------------------------------------------------------------------
(* Record sequences handed to create_json_body *)

PostFields == {"Titolo", "Descrizione", "Importo", "Tipo", "Data"}

\* Every record of one run carries the same keys, the headers of the sheet:
\* all five, or all but one of Titolo, Importo, Tipo.
HeaderSets ==
    {PostFields} \cup {PostFields \ {f} : f \in {"Titolo", "Importo", "Tipo"}}

AmountVals == {1, 3}

TipoVals == {"", "Food", "food"}

FullRecord(a, t) ==
    [Titolo |-> "Coffee", Descrizione |-> "Morning coffee", Importo |-> a,
     Tipo |-> t, Data |-> "15/01/2024"]

RecordsOver(H) ==
    {[h \in H |-> FullRecord(a, t)[h]] : a \in AmountVals, t \in TipoVals}

DataInputs == UNION {SeqsUpTo(RecordsOver(H), MaxRecords) : H \in HeaderSets}

----------------------------------------------------------------------------
(* create_json_body *)

\* record.get("Importo", 0)
GetImporto(record) == IF "Importo" \in DOMAIN record THEN record["Importo"] ELSE 0

RECURSIVE SumImporto(_)
SumImporto(s) ==
    IF Len(s) = 0 THEN 0 ELSE GetImporto(s[1]) + SumImporto(Tail(s))

\* round(x, 2) of a non-negative float x = eighths/8: the nearest hundredth of
\* the exact value, a tie going to the even hundredth.
Round2(eighths) ==
    LET n == 25 * eighths
        q == n \div 2
    IN  IF n % 2 = 0 THEN q
        ELSE IF q % 2 = 0 THEN q ELSE q + 1

\* create_json_body with each Importo rounded before the addition
create_json_body_roundEach(d) ==
    [transactions |-> d,
     summary |-> [total_records |-> Len(d),
                  total_amount |-> SumImporto([k \in 1..Len(d) |->
                                      [Importo |-> Round2(GetImporto(d[k]))]])]]

create_json_body(d) ==
    [transactions |-> d,
     summary |-> [total_records |-> Len(d),
                  total_amount |-> Round2(SumImporto(d))]]

EmptyEnvelope ==
    [transactions |-> <<>>, summary |-> [total_records |-> 0, total_amount |-> 0]]

----------------------------------------------------------------------------
(* HTTP responses *)

\* Body of a login answer, as response.json() sees it:
\*   "nojson"   the body is not JSON (response.json() raises),
\*   "nodata"   a JSON object without the key "data",
\*   "datanull" a JSON object whose "data" is null,
\*   "dict"     a JSON object whose "data" is an object; token / access_token
\*              are its values under those keys (NoneTok when absent or null).
LoginBodies ==
    {[shape |-> sh, token |-> NoneTok, access_token |-> NoneTok] :
        sh \in {"nojson", "nodata", "datanull"}}
    \cup
    {[shape |-> "dict", token |-> t, access_token |-> a] :
        t \in {NoneTok, "", "tokA"}, a \in {NoneTok, "", "tokB"}}

LoginResponses ==
    {[status |-> st, body |-> b] : st \in {200}, b \in LoginBodies}
    \cup
    {[status |-> st, body |-> [shape |-> "nojson", token |-> NoneTok,
                               access_token |-> NoneTok]] :
        st \in {NoResponse, 401, 500}}

\* RemoteCategory objects of the lookup list: two share a name, one has the
\* empty name.
Categories ==
    {[name |-> "Food", _id |-> "abc123"], [name |-> "Food", _id |-> "def456"],
     [name |-> "", _id |-> "xyz789"]}

\* Body of a GET answer: a JSON object, with or without the key "data".
GetBodies ==
    {[hasData |-> FALSE, data |-> <<>>]}
    \cup
    {[hasData |-> TRUE, data |-> l] : l \in SeqsUpTo(Categories, MaxCats)}

GetResponses ==
    {[status |-> 200, body |-> b] : b \in GetBodies}
    \cup
    {[status |-> st, body |-> [hasData |-> FALSE, data |-> <<>>]] :
        st \in {NoResponse, 401, 500}}

PostStatuses == {NoResponse, 200, 201, 401, 500}

----------------------------------------------------------------------------
(* login_api *)

\* Result of login_api(): ret is "True", "False" or "raise" (an exception that
\* login_api does not catch), token the value of AUTH_TOKEN afterwards.
\* json_caught: whether the installed requests raises, for a body that is not
\* JSON, a subclass of RequestException (caught at line 186) or a bare
\* ValueError (not caught).
login_api(token, resp, json_caught) ==
    IF resp.status = NoResponse THEN [ret |-> "False", token |-> token]
    ELSE IF resp.status = 200 THEN
        IF resp.body.shape = "nojson" THEN
            [ret |-> IF json_caught THEN "False" ELSE "raise", token |-> token]
        ELSE IF resp.body.shape \in {"nodata", "datanull"} THEN
            \* response_data["data"]: KeyError; None.get: AttributeError
            [ret |-> "raise", token |-> token]
        ELSE
            LET tok == IF Truthy(resp.body.token) THEN resp.body.token
                       ELSE resp.body.access_token
            IN  [ret |-> IF Truthy(tok) THEN "True" ELSE "False", token |-> tok]
    ELSE [ret |-> "False", token |-> token]

----------------------------------------------------------------------------
(* api_get_request *)

NoTypes == [isNone |-> TRUE, list |-> <<>>]

\* Result of api_get_request(): sent tells whether requests.get was called,
\* isNone whether None was returned, json the decoded body otherwise.
api_get_request(token, resp) ==
    IF Falsy(token) THEN
        [sent |-> FALSE, isNone |-> TRUE, json |-> resp.body, token |-> token]
    ELSE IF resp.status = NoResponse THEN
        [sent |-> TRUE, isNone |-> TRUE, json |-> resp.body, token |-> token]
    ELSE IF resp.status = 200 THEN
        [sent |-> TRUE, isNone |-> FALSE, json |-> resp.body, token |-> token]
    ELSE IF resp.status = 401 THEN
        [sent |-> TRUE, isNone |-> TRUE, json |-> resp.body, token |-> NoneTok]
    ELSE
        [sent |-> TRUE, isNone |-> TRUE, json |-> resp.body, token |-> token]

\* type_data = types_response.get("data") if types_response else None
TypeDataOf(r) ==
    IF r.isNone \/ ~r.json.hasData THEN NoTypes
    ELSE [isNone |-> FALSE, list |-> r.json.data]

----------------------------------------------------------------------------
(* api_post_request *)

\* api_post_request clearing the token on every status that is not a success
api_post_request_clearsOnError(token, item, status) ==
    IF Falsy(token) THEN [sent |-> FALSE, ret |-> "False", token |-> token]
    ELSE IF ~(PostFields \subseteq DOMAIN item) THEN
        [sent |-> FALSE, ret |-> "raise", token |-> token]
    ELSE IF status = NoResponse THEN
        [sent |-> TRUE, ret |-> "False", token |-> token]
    ELSE IF status \in {200, 201} THEN
        [sent |-> TRUE, ret |-> "True", token |-> token]
    ELSE
        [sent |-> TRUE, ret |-> "False", token |-> NoneTok]

\* api_post_request without the empty-token guard of lines 229-231
api_post_request_noGuard(token, item, status) ==
    IF ~(PostFields \subseteq DOMAIN item) THEN
        [sent |-> FALSE, ret |-> "raise", token |-> token]
    ELSE IF status = NoResponse THEN
        [sent |-> TRUE, ret |-> "False", token |-> token]
    ELSE IF status \in {200, 201} THEN
        [sent |-> TRUE, ret |-> "True", token |-> token]
    ELSE IF status = 401 THEN
        [sent |-> TRUE, ret |-> "False", token |-> NoneTok]
    ELSE
        [sent |-> TRUE, ret |-> "False", token |-> token]

\* Result of api_post_request(data): ret is "True", "False" or "raise" (the
\* KeyError of the body mapping, lines 241-247, which lies outside the try).
api_post_request(token, item, status) ==
    IF Falsy(token) THEN [sent |-> FALSE, ret |-> "False", token |-> token]
    ELSE IF ~(PostFields \subseteq DOMAIN item) THEN
        [sent |-> FALSE, ret |-> "raise", token |-> token]
    ELSE IF status = NoResponse THEN
        [sent |-> TRUE, ret |-> "False", token |-> token]
    ELSE IF status \in {200, 201} THEN
        [sent |-> TRUE, ret |-> "True", token |-> token]
    ELSE IF status = 401 THEN
        [sent |-> TRUE, ret |-> "False", token |-> NoneTok]
    ELSE
        [sent |-> TRUE, ret |-> "False", token |-> token]

----------------------------------------------------------------------------
(* The resolution pass of execute_api_workflow, lines 285-290 *)

\* next((t for t in type_data if t.get("name") == tipo_spesa), None):
\* the position of the first match, 0 for None.
FirstMatch(list, name) ==
    LET I == {k \in 1..Len(list) : list[k].name = name}
    IN  IF I = {} THEN 0 ELSE Min(I)

Lower(t) == IF t = "Food" THEN "food" ELSE t

\* the resolution of one record with the names compared case-insensitively
ResolveItem_ignoreCase(item, td) ==
    IF "Tipo" \in DOMAIN item /\ Truthy(item["Tipo"])
       /\ ~td.isNone /\ Len(td.list) > 0
    THEN LET I == {k \in 1..Len(td.list) :
                      Lower(td.list[k].name) = Lower(item["Tipo"])}
         IN  IF I = {} THEN item
             ELSE [item EXCEPT !["Tipo"] = td.list[Min(I)]._id]
    ELSE item

ResolveItem(item, td) ==
    IF "Tipo" \in DOMAIN item /\ Truthy(item["Tipo"])
       /\ ~td.isNone /\ Len(td.list) > 0
    THEN LET k == FirstMatch(td.list, item["Tipo"])
         IN  IF k = 0 THEN item
             ELSE [item EXCEPT !["Tipo"] = td.list[k]._id]
    ELSE item

ResolvePass(transactions, td) ==
    [k \in 1..Len(transactions) |-> ResolveItem(transactions[k], td)]

----------------------------------------------------------------------------
(* Control flow of main() and execute_api_workflow() *)

\* main(), line 40
AfterBuild(configured) == IF configured THEN "login" ELSE "done"

\* the workflow going on to the GET after a login that returned False
AfterLogin_noAbort(ret) == IF ret = "raise" THEN "raised" ELSE "get"

\* execute_api_workflow(), lines 273-275; an exception of login_api leaves
\* execute_api_workflow and main: the process ends with a traceback.
AfterLogin(ret) ==
    IF ret = "True" THEN "get"
    ELSE IF ret = "False" THEN "done"
    ELSE "raised"

\* the workflow ending when the category fetch returned None
AfterGet_abortOnFailure(r) == IF r.isNone THEN "done" ELSE "resolve"

\* lines 279-285: whatever api_get_request returned, the resolution pass follows
AfterGet(r) == "resolve"

\* the loop logging in again after a submission that returned False
AfterPost_relogin(ret, k, n) ==
    IF ret = "raise" THEN "done"
    ELSE IF ret = "False" THEN "login"
    ELSE IF k < n THEN "post" ELSE "done"

\* lines 294-303: the loop goes on after a returned value and is left, into the
\* except clause, by an exception; n is the number of transactions.
AfterPost(ret, k, n) ==
    IF ret = "raise" THEN "done"
    ELSE IF k < n THEN "post" ELSE "done"

\* the line logged for one api_post_request() invocation, lines 298-303
LogLine(ret) ==
    IF ret = "True" THEN "Dati inviati con successo!"
    ELSE IF ret = "False" THEN "Errore nell'invio dei dati"
    ELSE "Errore durante la preparazione dei dati per la POST"

Call(kind, rec, bearer, status) ==
    [kind |-> kind, rec |-> rec, bearer |-> bearer, status |-> status]

----------------------------------------------------------------------------
(* The run: main() from create_json_body on *)

Init ==
    /\ pc = "main"
    /\ api_config \in BOOLEAN
    /\ data \in DataInputs
    /\ json_data = EmptyEnvelope
    /\ built = EmptyEnvelope
    /\ AUTH_TOKEN = NoneTok
    /\ issued = NoneTok
    /\ login_result = "none"
    /\ type_data = NoTypes
    /\ i = 1
    /\ calls = <<>>
    /\ log = <<>>
    /\ resolved = FALSE
    /\ sheet = <<>>
    /\ headers = {}
    /\ row = 2
    /\ records = <<>>
    /\ rd_pc = "idle"

\* main(), lines 30-43
Main ==
    /\ pc = "main"
    /\ json_data' = create_json_body(data)
    /\ built' = create_json_body(data)
    /\ pc' = AfterBuild(api_config)
    /\ UNCHANGED <<api_config, data, AUTH_TOKEN, issued, login_result,
                   type_data, i, calls, log, resolved>>
    /\ UNCHANGED rd_vars

\* execute_api_workflow(), lines 273-275
Login ==
    /\ pc = "login"
    /\ \E resp \in LoginResponses, json_caught \in BOOLEAN :
        LET r == login_api(AUTH_TOKEN, resp, json_caught)
        IN  /\ AUTH_TOKEN' = r.token
            /\ login_result' = r.ret
            /\ issued' = IF r.ret = "True" THEN r.token ELSE issued
            /\ calls' = Append(calls, Call("login", 0, NoneTok, resp.status))
            /\ pc' = AfterLogin(r.ret)
    /\ UNCHANGED <<api_config, data, json_data, built, type_data, i, log, resolved>>
    /\ UNCHANGED rd_vars

\* execute_api_workflow(), lines 279-282
Get ==
    /\ pc = "get"
    /\ \E resp \in GetResponses :
        LET r == api_get_request(AUTH_TOKEN, resp)
        IN  /\ AUTH_TOKEN' = r.token
            /\ type_data' = TypeDataOf(r)
            /\ calls' = IF r.sent
                        THEN Append(calls, Call("get", 0, AUTH_TOKEN, resp.status))
                        ELSE calls
            /\ pc' = AfterGet(r)
    /\ UNCHANGED <<api_config, data, json_data, built, issued, login_result,
                   i, log, resolved>>
    /\ UNCHANGED rd_vars

\* execute_api_workflow(), lines 285-290
Resolve ==
    /\ pc = "resolve"
    /\ json_data' = [json_data EXCEPT
                        !.transactions = ResolvePass(json_data.transactions, type_data)]
    /\ resolved' = TRUE
    /\ i' = 1
    /\ pc' = IF Len(json_data.transactions) = 0 THEN "done" ELSE "post"
    /\ UNCHANGED <<api_config, data, built, AUTH_TOKEN, issued, login_result,
                   type_data, calls, log>>
    /\ UNCHANGED rd_vars

\* execute_api_workflow(), lines 294-303: one iteration of the POST loop
Post ==
    /\ pc = "post"
    /\ \E status \in PostStatuses :
        LET item == json_data.transactions[i]
            r == api_post_request(AUTH_TOKEN, item, status)
        IN  /\ AUTH_TOKEN' = r.token
            /\ calls' = IF r.sent
                        THEN Append(calls, Call("post", i, AUTH_TOKEN, status))
                        ELSE calls
            /\ log' = Append(log, LogLine(r.ret))
            /\ pc' = AfterPost(r.ret, i, Len(json_data.transactions))
            /\ i' = i + 1
    /\ UNCHANGED <<api_config, data, json_data, built, issued, login_result,
                   type_data, resolved>>
    /\ UNCHANGED rd_vars

Next == Main \/ Login \/ Get \/ Resolve \/ Post

Spec == Init /\ [][Next]_vars

----------------------------------------------------------------------------
(* read_excel_data: the row loop, lines 75-111 *)

MaxRows == 2

\* A float: k is "fin" (v eighths), "nan" or "inf" (v its sign).
Fin(v) == [k |-> "fin", v |-> v]

\* Cell values openpyxl can hand out for the Importo column:
\*   "none"     empty cell                    "num"      int or float cell
\*   "numtext"  text that float() parses to a finite number, e.g. "-3.5"
\*   "text"     text that float() rejects, e.g. "abc" or "#N/A"
\*   "nantext"  the text "nan"                "inftext"  the text "inf" / "-inf"
\*   "datetime" a date cell                   "bigint"   an int beyond the float range
ImportoCells ==
    {[kind |-> "none", v |-> 0], [kind |-> "text", v |-> 0],
     [kind |-> "datetime", v |-> 0], [kind |-> "nantext", v |-> 0],
     [kind |-> "bigint", v |-> 0]}
    \cup {[kind |-> "num", v |-> n] : n \in {-28, 0, 5}}
    \cup {[kind |-> "numtext", v |-> n] : n \in {-28, 12}}
    \cup {[kind |-> "inftext", v |-> n] : n \in {-1, 1}}

\* Column 3 (Descrizione) decides where the table ends.
PresenceCells == {[kind |-> "none", v |-> 0], [kind |-> "text", v |-> 0]}

SheetRows == {[Descrizione |-> d, Importo |-> c] : d \in PresenceCells, c \in ImportoCells}

\* float(cell_value), line 91: a float, or the exception raised
PyFloat(cell) ==
    IF cell.kind \in {"num", "numtext"} THEN Fin(cell.v)
    ELSE IF cell.kind = "nantext" THEN [k |-> "nan", v |-> 0]
    ELSE IF cell.kind = "inftext" THEN [k |-> "inf", v |-> cell.v]
    ELSE IF cell.kind = "text" THEN [k |-> "ValueError", v |-> 0]
    ELSE IF cell.kind = "bigint" THEN [k |-> "OverflowError", v |-> 0]
    ELSE [k |-> "TypeError", v |-> 0]

\* abs(x) of a float
PyAbs(f) == IF f.k = "nan" THEN f ELSE [f EXCEPT !.v = IF f.v < 0 THEN -f.v ELSE f.v]

\* lines 86-96: the value stored under "Importo"; k = "raise" when the
\* conversion raises an exception that line 93 does not catch
ImportoOf(cell) ==
    IF cell.kind # "none" THEN
        LET f == PyFloat(cell)
        IN  IF f.k \in {"ValueError", "TypeError"} THEN Fin(0)
            ELSE IF f.k = "OverflowError" THEN [k |-> "raise", v |-> 0]
            ELSE PyAbs(f)
    ELSE Fin(0)

\* lines 106-108: str(cell_value) if cell_value is not None else ""
TextOf(cell) == IF cell.kind = "none" THEN "" ELSE "text"

\* sheet.cell(row=r, column=...) of a data row; rows past the stored ones are empty
EmptyRow == [Descrizione |-> [kind |-> "none", v |-> 0], Importo |-> [kind |-> "none", v |-> 0]]

RowAt(sh, r) == IF r - 1 <= Len(sh) THEN sh[r - 1] ELSE EmptyRow

InitNorm ==
    /\ pc = "read"
    /\ api_config = FALSE
    /\ data = <<>>
    /\ json_data = EmptyEnvelope
    /\ built = EmptyEnvelope
    /\ AUTH_TOKEN = NoneTok
    /\ issued = NoneTok
    /\ login_result = "none"
    /\ type_data = NoTypes
    /\ i = 1
    /\ calls = <<>>
    /\ log = <<>>
    /\ resolved = FALSE
    /\ sheet \in SeqsUpTo(SheetRows, MaxRows)
    /\ headers = {"Descrizione", "Importo"}
    /\ row = 2
    /\ records = <<>>
    /\ rd_pc = "rows"

\* lines 76-111, one row with a value in column 3
ReadRow ==
    /\ rd_pc = "rows"
    /\ RowAt(sheet, row).Descrizione.kind # "none"
    /\ LET imp == ImportoOf(RowAt(sheet, row).Importo)
       IN  IF imp.k = "raise"
           THEN /\ rd_pc' = "raised"
                /\ UNCHANGED <<records, row>>
           ELSE /\ records' = Append(records,
                        [Descrizione |-> TextOf(RowAt(sheet, row).Descrizione),
                         Importo |-> imp])
                /\ row' = row + 1
                /\ UNCHANGED rd_pc
    /\ UNCHANGED <<sheet, headers>>
    /\ UNCHANGED wf_vars

\* lines 78-79 and 113-120: the first row with an empty column 3 ends the loop
ReadEnd ==
    /\ rd_pc = "rows"
    /\ RowAt(sheet, row).Descrizione.kind = "none"
    /\ rd_pc' = "done"
    /\ UNCHANGED <<sheet, headers, row, records>>
    /\ UNCHANGED wf_vars

NextNorm == ReadRow \/ ReadEnd

SpecNorm == InitNorm /\ [][NextNorm]_vars

----------------------------------------------------------------------------
(* Properties of the sync workflow, checked under Spec *)

Transactions == json_data.transactions

SuccessLine == "Dati inviati con successo!"

ErrorLine == "Errore nell'invio dei dati"

CallsOf(kind) == {k \in 1..Len(calls) : calls[k].kind = kind}

\* the category fetch was sent and did not come back with status 200
GetFailed == \E k \in CallsOf("get") : calls[k].status # 200

GetSucceeded == \E k \in CallsOf("get") : calls[k].status = 200

\* positions of the authenticated calls answered with 401
Rejected == {k \in CallsOf("get") \cup CallsOf("post") : calls[k].status = 401}

\* C1: whenever login_api has returned failure, the workflow has ended and the
\* login request is the only HTTP call of the run: no GET, no POST, and the
\* submission loop was never entered, whatever the record sequence.
Thm_C1_FailedLoginStopsWorkflow ==
    login_result = "False" =>
        /\ pc = "done"
        /\ Len(calls) = 1
        /\ calls[1].kind = "login"
        /\ log = <<>>
        /\ ~resolved

\* C1 witness: a run over two records whose login was answered 200 without a
\* usable token and which has ended.
Wit_C1_FailedLogin ==
    /\ login_result = "False"
    /\ pc = "done"
    /\ calls[1].status = 200
    /\ Len(data) = 2

\* C2: after a successful login, at the end of the run every record that
\* follows a record whose submission did not succeed has still been processed
\* and has its own success/failure line.
CE_C2_FailureDoesNotStopLaterRecords ==
    (pc = "done" /\ login_result = "True") =>
        \A k \in 1..Len(Transactions) :
            (\E j \in 1..(k - 1) : j <= Len(log) /\ log[j] # SuccessLine) =>
                (k <= Len(log) /\ log[k] \in {SuccessLine, ErrorLine})

Thm_C4_TokenStateMachine ==
    /\ (pc = "main" => Falsy(AUTH_TOKEN))
    /\ [][ /\ (Falsy(AUTH_TOKEN) /\ Truthy(AUTH_TOKEN') =>
                  pc = "login" /\ login_result' = "True" /\ issued' = AUTH_TOKEN')
           /\ (Truthy(AUTH_TOKEN) /\ AUTH_TOKEN' # AUTH_TOKEN =>
                  /\ AUTH_TOKEN' = NoneTok
                  /\ Len(calls') = Len(calls) + 1
                  /\ calls'[Len(calls')].kind \in {"get", "post"}
                  /\ calls'[Len(calls')].status = 401)
           /\ (Len(calls') = Len(calls) + 1
               /\ calls'[Len(calls')].kind \in {"get", "post"} =>
                  /\ calls'[Len(calls')].bearer = AUTH_TOKEN
                  /\ calls'[Len(calls')].bearer = issued
                  /\ Truthy(AUTH_TOKEN)
                  /\ IF calls'[Len(calls')].status = 401
                     THEN AUTH_TOKEN' = NoneTok
                     ELSE AUTH_TOKEN' = AUTH_TOKEN)
         ]_vars

\* C4 witness: a token was issued, the POST of the first record was answered
\* 500 and left it in place, the POST of the second was answered 401 and
\* cleared it.
Wit_C4_IssuedThenCleared ==
    /\ Truthy(issued)
    /\ Len(calls) = 4
    /\ calls[3].kind = "post" /\ calls[3].status = 500
    /\ calls[4].kind = "post" /\ calls[4].status = 401
    /\ AUTH_TOKEN = NoneTok

\* C5: once login_api has run, its outcome is a returned True or False, never
\* an exception; True only for a 200 answer with a non-empty token, which is
\* then in the slot; False leaves the slot empty.
CE_C5_LoginNeverRaises ==
    Len(calls) >= 1 =>
        /\ login_result \in {"True", "False"}
        /\ (login_result = "True" => calls[1].status = 200 /\ Truthy(issued))
        /\ (login_result = "False" => Falsy(AUTH_TOKEN))

\* the fetched RemoteCategory objects whose name is the text t
Named(t) == {k \in 1..Len(type_data.list) : type_data.list[k].name = t}

\* C6 as claimed: after a successful fetch and the resolution pass, the record
\* sequence has its length and order, a record whose Tipo equals the name of a
\* fetched category has that Tipo replaced by the _id of such a category and
\* nothing else changed, and every other record is exactly as built.
CE_C6_ExactMatchResolution ==
    (GetSucceeded /\ resolved) =>
        /\ Len(Transactions) = Len(built.transactions)
        /\ \A k \in 1..Len(Transactions) :
            LET old == built.transactions[k]
                new == Transactions[k]
            IN  IF "Tipo" \in DOMAIN old /\ Named(old["Tipo"]) # {}
                THEN \E c \in Named(old["Tipo"]) :
                        new = [old EXCEPT !["Tipo"] = type_data.list[c]._id]
                ELSE new = old

\* C6 amended: the same, with the replacement made only for a non-empty Tipo;
\* a record whose Tipo is the empty text is left exactly as built even when a
\* fetched category has the empty name.
Thm_C6_NonEmptyExactMatchResolution ==
    (GetSucceeded /\ resolved) =>
        /\ Len(Transactions) = Len(built.transactions)
        /\ \A k \in 1..Len(Transactions) :
            LET old == built.transactions[k]
                new == Transactions[k]
            IN  IF "Tipo" \in DOMAIN old /\ old["Tipo"] # ""
                   /\ Named(old["Tipo"]) # {}
                THEN \E c \in Named(old["Tipo"]) :
                        new = [old EXCEPT !["Tipo"] = type_data.list[c]._id]
                ELSE new = old

\* C6 witness: of two records resolved against a fetched list, the first
\* ("Food") was rewritten to an _id and the second ("food") was not.
Wit_C6_OneResolvedOneKept ==
    /\ GetSucceeded
    /\ resolved
    /\ Len(Transactions) = 2
    /\ "Tipo" \in DOMAIN built.transactions[1]
    /\ built.transactions[1]["Tipo"] = "Food"
    /\ Transactions[1]["Tipo"] = "abc123"
    /\ built.transactions[2]["Tipo"] = "food"
    /\ Transactions[2] = built.transactions[2]

\* h hundredths is a two-decimal value nearest to e eighths:
\* |e/8 - h/100| <= 1/200
NearestHundredth(e, h) == (25 * e - 2 * h) \in -1..1

SummaryInvariant(env) ==
    /\ env.summary.total_records = Len(env.transactions)
    /\ NearestHundredth(SumImporto(env.transactions), env.summary.total_amount)

\* C7 as claimed: from create_json_body on, the envelope satisfies the summary
\* invariant and is exactly the envelope that was built.
CE_C7_EnvelopeImmutable ==
    pc # "main" => SummaryInvariant(json_data) /\ json_data = built

\* C7 amended: from create_json_body on, the envelope satisfies the summary
\* invariant in every state; its summary, the length and order of its record
\* sequence and every field of every record other than Tipo stay as built,
\* and before the resolution pass the whole envelope is as built.  (The
\* resolution pass rewrites Tipo inside the envelope's own records.)
Thm_C7_SummaryInvariantKept ==
    pc # "main" =>
        /\ SummaryInvariant(json_data)
        /\ json_data.summary = built.summary
        /\ built = create_json_body(data)
        /\ Len(Transactions) = Len(built.transactions)
        /\ \A k \in 1..Len(Transactions) :
            /\ DOMAIN Transactions[k] = DOMAIN built.transactions[k]
            /\ \A f \in DOMAIN Transactions[k] \ {"Tipo"} :
                  Transactions[k][f] = built.transactions[k][f]
        /\ (~resolved => json_data = built)

\* C7 witness: a two-record envelope with duplicate Amounts whose first record
\* has been rewritten by the resolution pass, at the end of the run.
Wit_C7_AfterResolutionAndPosts ==
    /\ pc = "done"
    /\ Len(Transactions) = 2
    /\ Len(log) = 2
    /\ GetImporto(Transactions[1]) = 1
    /\ GetImporto(Transactions[2]) = 1
    /\ json_data.summary.total_amount = 25
    /\ Transactions # built.transactions

\* C9: the HTTP calls of a run are in the order login, GET, POSTs: the first
\* call and no other is the login, a GET can only be the second call and only
\* after a login that returned success, a POST is sent only after the
\* resolution pass, the POSTs go through the records in increasing order with
\* no record submitted twice, and the loop has invoked the submission once per
\* record passed.
Thm_C9_StrictOrderNoRetry ==
    /\ (pc \notin {"main", "login"} /\ api_config => CallsOf("login") = {1})
    /\ CallsOf("login") \subseteq {1}
    /\ CallsOf("get") \subseteq {2}
    /\ (CallsOf("get") # {} => login_result = "True")
    /\ (CallsOf("post") # {} => resolved /\ login_result = "True")
    /\ \A j, k \in CallsOf("post") : j < k => calls[j].rec < calls[k].rec
    /\ \A k \in CallsOf("post") : calls[k].rec \in 1..Len(Transactions)
    /\ (pc \in {"post", "done"} /\ resolved => Len(log) = i - 1)
    /\ Len(log) <= Len(Transactions)

\* C9 witness: login, GET, then the POST of record 1 answered 401 and the
\* run ended after the loop passed record 2.
Wit_C9_OrderedRunWithRejection ==
    /\ pc = "done"
    /\ Len(calls) = 3
    /\ calls[2].kind = "get"
    /\ calls[3].kind = "post" /\ calls[3].rec = 1 /\ calls[3].status = 401
    /\ Len(log) = 2

\* C10: once a GET or POST has been answered 401, it is the last HTTP request
\* of the run: the token slot is empty, every submission invoked afterwards
\* returns failure without a request, so the POSTs sent are those of records
\* 1..k where k is the record answered 401 (none when it was the GET), and at
\* the end of the run every record has its failure line.
Thm_C10_NothingSentAfter401 ==
    Rejected # {} =>
        /\ Rejected = {Len(calls)}
        /\ Falsy(AUTH_TOKEN)
        /\ LET last == calls[Len(calls)]
               sent == IF last.kind = "get" THEN 0 ELSE last.rec
           IN  /\ Cardinality(CallsOf("post")) = sent
               /\ {calls[c].rec : c \in CallsOf("post")} = 1..sent
               /\ \A k \in (sent + 1)..Len(log) : log[k] = ErrorLine
        /\ (pc = "done" => Len(log) = Len(Transactions))

\* C10 witness: the POST of record 1 of two was answered 401, and the run has
\* ended with a failure line for record 2 and no further request.
Wit_C10_RejectedThenGuarded ==
    /\ pc = "done"
    /\ Len(Transactions) = 2
    /\ Rejected = {3}
    /\ calls[3].kind = "post"
    /\ log = <<ErrorLine, ErrorLine>>

----------------------------------------------------------------------------
(* Properties of the normalizer, checked under SpecNorm *)

NonNegative(a) == a.k \in {"fin", "inf"} /\ a.v >= 0

AbsInt(n) == IF n < 0 THEN -n ELSE n

\* C8: the normalizer never fails, and every record it has emitted has an
\* Importo that is present and non-negative: the absolute value of a numeric
\* cell or numeric text, exactly 0.0 for an empty or non-numeric cell.
CE_C8_AmountNonNegative ==
    /\ rd_pc # "raised"
    /\ \A k \in 1..Len(records) :
        LET cell == sheet[k].Importo
            amount == records[k].Importo
        IN  /\ "Importo" \in DOMAIN records[k]
            /\ NonNegative(amount)
            /\ (cell.kind \in {"num", "numtext"} => amount = Fin(AbsInt(cell.v)))
            /\ (cell.kind \in {"none", "text", "datetime"} => amount = Fin(0))

====
